---- MODULE Spec2Model ----
(***************************************************************************)
(* A model of renpy2flatpak-mark2.py: one run of main(), from the parsed   *)
(* command line to the exit of the process.                                *)
(*                                                                         *)
(* Text is a sequence of pieces (TLA+ strings); a piece is one character   *)
(* or a longer literal that no operation of the program looks into.  A     *)
(* path is text whose pieces "/" separate its components.  The file system *)
(* is a function from the paths that exist to their contents.              *)
(***************************************************************************)
EXTENDS Integers, Sequences, FiniteSets, TLC

MaxPatches == 2
MaxCats == 2
MaxNameLen == 3

VARIABLES
    argv,           \* the command line: input, description, repo, patches, install, cleanup
    args,           \* the argparse namespace; args.description becomes the loaded table
    fs,             \* the file system: path -> content
    pc,             \* position of main()
    appid,
    desktop_file,
    appdata_file,
    struct,         \* the manifest dump_json serialised
    build_command,  \* argv of the external builder
    builderRuns,    \* how many times the external builder was started
    builderStatus,  \* exit status of the external builder
    exitStatus,     \* exit status of the run
    error,          \* the exception that ended the run
    synthIn,        \* two (reverse_url, name) pairs given to the identity synthesis
    synthOut        \* their identifiers

vars == <<argv, args, fs, pc, appid, desktop_file, appdata_file, struct,
          build_command, builderRuns, builderStatus, exitStatus, error,
          synthIn, synthOut>>

(***************************************************************************)
(* Text and dictionaries                                                   *)
(***************************************************************************)
None == <<>>

EmptyDict == <<>>

Has(d, k) == k \in DOMAIN d

Without(d, k) == [x \in (DOMAIN d) \ {k} |-> d[x]]

With(d, k, v) == [x \in (DOMAIN d) \cup {k} |-> IF x = k THEN v ELSE d[x]]

SeqsUpTo(S, n) == UNION {[1..k -> S] : k \in 0..n}

NonEmpty(S) == S \ {<<>>}

\* str.replace(old, new) for a one-character old
RECURSIVE Replace(_, _, _)
Replace(s, old, new) ==
    IF s = <<>> THEN <<>>
    ELSE (IF Head(s) = old THEN new ELSE <<Head(s)>>) \o Replace(Tail(s), old, new)

\* str.split(sep): the pieces between the separators, empty ones included
RECURSIVE Split(_, _)
Split(s, sep) ==
    IF \A i \in 1..Len(s) : s[i] # sep THEN <<s>>
    ELSE LET i == CHOOSE j \in 1..Len(s) :
                      s[j] = sep /\ \A k \in 1..(j - 1) : s[k] # sep
         IN <<SubSeq(s, 1, i - 1)>> \o Split(SubSeq(s, i + 1, Len(s)), sep)

\* sep.join(list)
RECURSIVE Join(_, _)
Join(sep, list) ==
    IF list = <<>> THEN <<>>
    ELSE IF Len(list) = 1 THEN list[1]
    ELSE list[1] \o <<sep>> \o Join(sep, Tail(list))

(***************************************************************************)
(* Paths and files                                                         *)
(***************************************************************************)
Cwd == <<"/", "work">>

gettempdir == <<"/", "tmp">>

\* pathlib: dir / name
PathJoin(dir, name) == dir \o <<"/">> \o name

\* Path.absolute()
Absolute(p) == IF p # <<>> /\ p[1] = "/" THEN p ELSE PathJoin(Cwd, p)

\* Path.name: the last component
PathName(p) ==
    LET parts == Split(p, "/") IN parts[Len(parts)]

IsUnder(p, dir) ==
    /\ Len(p) >= Len(dir)
    /\ SubSeq(p, 1, Len(dir)) = dir
    /\ (Len(p) = Len(dir) \/ p[Len(dir) + 1] = "/")

Dir == [kind |-> "dir"]

Bytes(v) == [kind |-> "bytes", val |-> v]

Put(f, p, c) == [q \in (DOMAIN f) \cup {p} |-> IF q = p THEN c ELSE f[q]]

Readable(f, p) == p \in DOMAIN f /\ f[p].kind # "dir"

\* tdir.mkdir(parents=True, exist_ok=True)
Mkdir(f, p) == IF p \in DOMAIN f THEN f ELSE Put(f, p, Dir)

\* shutil.rmtree(tdir)
Rmtree(f, dir) == [q \in {p \in DOMAIN f : ~IsUnder(p, dir)} |-> f[q]]

\* hashlib.sha256(bytes).hexdigest(): distinct contents have distinct digests
Digest(content) == <<"sha256", content>>

\* the digest of the path's text instead of the file's bytes
sha256_of_path(f, path) == Digest(Bytes(path))

\* with path.open('rb') as f: hashlib.sha256(f.read()).hexdigest()
sha256(f, path) == Digest(f[path])

(***************************************************************************)
(* sanitize_name and the app identifier                                    *)
(***************************************************************************)
\* colons replaced by underscores instead of removed
sanitize_name_colon_underscore(name) ==
    Replace(Replace(name, " ", <<"_">>), ":", <<"_">>)

sanitize_name(name) == Replace(Replace(name, " ", <<"_">>), ":", <<>>)

AppId(reverse_url, name) == reverse_url \o <<".">> \o sanitize_name(name)

\* args.description.get('workarounds', {}).get('icon', True)
IconWorkaround(desc) ==
    LET w == IF Has(desc, "workarounds") THEN desc.workarounds ELSE EmptyDict
    IN IF Has(w, "icon") THEN w.icon ELSE TRUE

(***************************************************************************)
(* create_desktop: the launcher descriptor, as its lines                   *)
(***************************************************************************)
DesktopPath(workdir, id) == PathJoin(workdir, id \o <<".desktop">>)

CategoriesValue(categories) == <<"Game", ";">> \o Join(";", categories) \o <<";">>

DesktopHeader(desc) ==
    << <<"[Desktop Entry]">>,
       <<"Name=">> \o desc.common.name,
       <<"Exec=", "game.sh">>,
       <<"Type=", "Application">>,
       <<"Categories=">> \o CategoriesValue(desc.common.categories) >>

\* the icon key written whatever the flag says
DesktopIconAlways(desc, id) == << <<"Icon=">> \o id >>

DesktopIcon(desc, id) ==
    IF IconWorkaround(desc) THEN << <<"Icon=">> \o id >> ELSE <<>>

DesktopText(lines) == [kind |-> "desktop", lines |-> lines]

\* The file is opened (created, truncated) before the f-string reads the table.
create_desktop(f, desc, workdir, id) ==
    LET p == DesktopPath(workdir, id) IN
    IF ~Has(desc.common, "categories")
    THEN [error |-> "KeyError", fs |-> Put(f, p, DesktopText(<<>>)), path |-> p]
    ELSE [error |-> "",
          fs |-> Put(f, p, DesktopText(DesktopHeader(desc) \o DesktopIcon(desc, id))),
          path |-> p]

(***************************************************************************)
(* create_appdata: the catalog document, as its element tree               *)
(***************************************************************************)
AppdataPath(workdir, id) == PathJoin(workdir, id \o <<".metainfo.xml">>)

\* ET.Element / subelem: tag, attributes (name, value pairs), text, children
Elem(tag, attrib, text, children) ==
    [tag |-> tag, attrib |-> attrib, text |-> text, children |-> children]

subelem(tag, text, attrib) == Elem(tag, attrib, text, <<>>)

Controls == << <<"pointing">>, <<"keyboard">>, <<"touch">>, <<"gamepad">> >>

CategoriesElem(desc) ==
    LET cs == << <<"Game">> >> \o desc.common.categories
    IN Elem("categories", <<>>, None,
            [i \in 1..Len(cs) |-> subelem("category", cs[i], <<>>)])

ContentRatingElem(items) ==
    Elem("content_rating", << <<"type", <<"oars-1.0">> >> >>, None,
         [i \in 1..Len(items) |->
             subelem("content_attribute", items[i][2], << <<"id", items[i][1]>> >>)])

ReleasesElem(items) ==
    Elem("releases", <<>>, None,
         [i \in 1..Len(items) |->
             subelem("release", None,
                     << <<"version", items[i][1]>>, <<"date", items[i][2]>> >>)])

\* the blocks written with no entries when their key is absent
OptionalBlocksPlaceholder(a) ==
    << ContentRatingElem(IF Has(a, "content_rating") THEN a.content_rating ELSE <<>>),
       ReleasesElem(IF Has(a, "releases") THEN a.releases ELSE <<>>) >>

\* if 'content_rating' in appdata: ...   if 'releases' in appdata: ...
OptionalBlocks(a) ==
    (IF Has(a, "content_rating") THEN << ContentRatingElem(a.content_rating) >> ELSE <<>>)
    \o (IF Has(a, "releases") THEN << ReleasesElem(a.releases) >> ELSE <<>>)

AppdataRoot(desc, id) ==
    LET a == desc.appdata IN
    Elem("component", << <<"type", <<"desktop-application">> >> >>, None,
         << subelem("id", id, <<>>),
            subelem("name", desc.common.name, <<>>),
            subelem("summary", a.summary, <<>>),
            subelem("metadata_license", <<"CC0-1.0">>, <<>>),
            subelem("project_license",
                    IF Has(a, "license") THEN a.license ELSE <<"LicenseRef-Proprietary">>,
                    <<>>),
            Elem("recommends", <<>>, None,
                 [i \in 1..Len(Controls) |-> subelem("control", Controls[i], <<>>)]),
            Elem("requires", <<>>, None,
                 << subelem("display_length", <<"360">>, << <<"compare", <<"ge">> >> >>),
                    subelem("internet", <<"offline-only">>, <<>>) >>),
            CategoriesElem(desc),
            Elem("description", <<>>, None, << subelem("p", a.summary, <<>>) >>),
            subelem("launchable", id \o <<".desktop">>,
                    << <<"type", <<"desktop-id">> >> >>) >>
         \o OptionalBlocks(a))

AppdataText(root) == [kind |-> "metainfo", root |-> root]

\* Every table lookup happens before tree.write opens the file.
create_appdata(f, desc, workdir, id) ==
    LET p == AppdataPath(workdir, id) IN
    IF ~Has(desc, "appdata") \/ ~Has(desc.appdata, "summary")
    THEN [error |-> "KeyError", fs |-> f, path |-> p]
    ELSE [error |-> "", fs |-> Put(f, p, AppdataText(AppdataRoot(desc, id))), path |-> p]

(***************************************************************************)
(* dump_json: the build manifest                                           *)
(***************************************************************************)
ManifestPath(workdir, id) == PathJoin(workdir, id \o <<".json">>)

Compile == <<"pushd /app/lib/game; ./*.sh . compile --keep-orphan-rpyc; popd">>

Source(f, path, type) == [path |-> path, sha256 |-> sha256(f, path), type |-> type]

MainModule(f, desc, input) ==
    [buildsystem |-> "simple",
     name |-> sanitize_name(desc.common.name),
     sources |-> << Source(f, input, "archive") >>,
     build_commands |->
        << <<"mkdir -p /app/lib/game">>,
           <<"mv *.sh *.py renpy game lib /app/lib/game/">>,
           <<"sed -i 's@\"~/.renpy/\"@os.environ.get(\"XDG_DATA_HOME\", \"~/.local/share\") + \"/\"@g' /app/lib/game/*.py">>,
           Compile >>,
     cleanup |-> << "*.exe", "*.app", "*.rpyc.bak", "*.rpy", "/lib/game/lib/*darwin-*",
                    "/lib/game/lib/*windows-*", "/lib/game/lib/*-i686" >>]

GameShModule ==
    [buildsystem |-> "simple",
     name |-> <<"game_sh">>,
     sources |-> <<>>,
     build_commands |->
        << <<"mkdir -p /app/bin">>,
           <<"echo  'cd /app/lib/game/; export RENPY_PERFORMANCE_TEST=0; sh *.sh' > /app/bin/game.sh">>,
           <<"chmod +x /app/bin/game.sh">> >>]

DesktopModule(f, path) ==
    [buildsystem |-> "simple",
     name |-> <<"desktop_file">>,
     sources |-> << Source(f, path, "file") >>,
     build_commands |->
        << <<"mkdir -p /app/share/applications">>,
           <<"cp ">> \o PathName(path) \o <<" /app/share/applications">> >>]

AppdataModule(f, path) ==
    [buildsystem |-> "simple",
     name |-> <<"appdata_file">>,
     sources |-> << Source(f, path, "file") >>,
     build_commands |->
        << <<"mkdir -p /app/share/metainfo">>,
           <<"cp ">> \o PathName(path) \o <<" /app/share/metainfo">> >>]

IconSrc == <<"/app/lib/game/game/gui/window_icon.png">>

IconDst(id) == <<"/app/share/icons/hicolor/256x256/apps/">> \o id \o <<".png">>

IconModule(id) ==
    [buildsystem |-> "simple",
     name |-> <<"icon">>,
     sources |-> <<>>,
     build_commands |->
        << <<"mkdir -p /app/share/icons/hicolor/256x256/apps/">>,
           Join(" ; ", << <<"if file ">> \o IconSrc \o <<" | grep 'Web/P' -q">>,
                          <<"then dwebp ">> \o IconSrc \o <<" -o ">> \o IconDst(id),
                          <<"else cp ">> \o IconSrc \o <<" ">> \o IconDst(id),
                          <<"fi">> >>) >>]

\* list.insert(i, x)
Insert(list, i, x) == SubSeq(list, 1, i) \o <<x>> \o SubSeq(list, i + 1, Len(list))

\* The modules literal hashes the archive, the descriptor and the catalog file.
InitialModules(f, desc, input, desktop, appdata) ==
    << MainModule(f, desc, input), GameShModule,
       DesktopModule(f, desktop), AppdataModule(f, appdata) >>

\* the icon module appended instead of inserted at index 1
WithIconAppended(modules, desc, id) ==
    IF IconWorkaround(desc) THEN Append(modules, IconModule(id)) ELSE modules

WithIcon(modules, desc, id) ==
    IF IconWorkaround(desc) THEN Insert(modules, 1, IconModule(id)) ELSE modules

MoveCommand(patch, d) == <<"mv ">> \o PathName(patch) \o <<" /app/lib/game/">> \o d

\* for pa, d in args.patches: unpack, hash, append; the first failure ends the loop
RECURSIVE PatchLoop(_, _, _, _)
PatchLoop(f, patches, sources, build_commands) ==
    IF patches = <<>>
    THEN [error |-> "", sources |-> sources, build_commands |-> build_commands]
    ELSE LET t == Head(patches) IN
         IF Len(t) # 2
         THEN [error |-> "ValueError", sources |-> sources,
               build_commands |-> build_commands]
         ELSE LET patch == Absolute(t[1]) IN
              IF ~Readable(f, patch)
              THEN [error |-> "OSError", sources |-> sources,
                    build_commands |-> build_commands]
              ELSE PatchLoop(f, Tail(patches),
                             Append(sources, Source(f, patch, "file")),
                             Append(build_commands, MoveCommand(patch, t[2])))

\* a compile command after every move instead of one after the loop
RECURSIVE CompileAfterEach(_)
CompileAfterEach(moves) ==
    IF moves = <<>> THEN <<>>
    ELSE <<Head(moves), Compile>> \o CompileAfterEach(Tail(moves))

WithPatchesCompileEach(modules, loop, patches) ==
    IF patches = <<>> THEN modules
    ELSE [modules EXCEPT
            ![1].sources = @ \o loop.sources,
            ![1].build_commands = @ \o CompileAfterEach(loop.build_commands)]

\* if args.patches: ... extend module 0 by the patch sources, the moves and one compile
WithPatches(modules, loop, patches) ==
    IF patches = <<>> THEN modules
    ELSE [modules EXCEPT
            ![1].sources = @ \o loop.sources,
            ![1].build_commands = @ \o Append(loop.build_commands, Compile)]

Manifest(id, modules) ==
    [sdk |-> "org.freedesktop.Sdk",
     runtime |-> "org.freedesktop.Platform",
     runtime_version |-> "21.08",
     app_id |-> id,
     build_options |-> [no_debuginfo |-> TRUE, strip |-> FALSE],
     command |-> "game.sh",
     finish_args |-> <<"--socket=pulseaudio", "--socket=wayland", "--socket=x11",
                       "--device=dri">>,
     modules |-> modules]

ManifestText(s) == [kind |-> "manifest", struct |-> s]

\* a failing patch skipped instead of ending the run
dump_json_skipping(f, a, workdir, id, desktop, appdata) ==
    LET loop == PatchLoop(f, a.patches, <<>>, <<>>) IN
    IF \E p \in {a.input, desktop, appdata} : ~Readable(f, p)
    THEN [error |-> "OSError", fs |-> f, struct |-> None]
    ELSE LET s == Manifest(id, WithPatches(
                      WithIcon(InitialModules(f, a.description, a.input, desktop, appdata),
                               a.description, id),
                      loop, a.patches))
         IN [error |-> "",
             fs |-> Put(f, ManifestPath(workdir, id), ManifestText(s)),
             struct |-> s]

dump_json(f, a, workdir, id, desktop, appdata) ==
    LET desc == a.description
        loop == PatchLoop(f, a.patches, <<>>, <<>>)
    IN  IF \E p \in {a.input, desktop, appdata} : ~Readable(f, p)
        THEN [error |-> "OSError", fs |-> f, struct |-> None]
        ELSE IF loop.error # ""
        THEN [error |-> loop.error, fs |-> f, struct |-> None]
        ELSE LET modules == WithPatches(
                                WithIcon(InitialModules(f, desc, a.input, desktop, appdata),
                                         desc, id),
                                loop, a.patches)
                 s == Manifest(id, modules)
             IN [error |-> "",
                 fs |-> Put(f, ManifestPath(workdir, id), ManifestText(s)),
                 struct |-> s]

(***************************************************************************)
(* build_flatpak                                                           *)
(***************************************************************************)
BuildCommand(a, workdir, id) ==
    << <<"flatpak-builder">>, <<"--force-clean">>, <<"build">>,
       Absolute(ManifestPath(workdir, id)) >>
    \o (IF a.repo # None THEN << <<"--repo">>, a.repo >> ELSE <<>>)
    \o (IF a.install THEN << <<"--user">>, <<"--install">> >> ELSE <<>>)

\* The exit statuses the external builder may return.
BuilderExitCodes == {0, 1}

(***************************************************************************)
(* main: one action per statement of its body                              *)
(***************************************************************************)
\* tmpdir(name): tempfile.gettempdir() / name
Workdir(a) == PathJoin(gettempdir, a.description.common.name)

\* An uncaught exception ends the process with status 1.  Inside the with
\* block it passes through the tmpdir generator, whose rmtree is then skipped.
Abort(e, a, f) ==
    /\ pc' = "aborted"
    /\ error' = e
    /\ exitStatus' = 1
    /\ args' = a
    /\ fs' = f

\* parser.parse_args(), args.input.absolute(), load_description
ParseAndLoad ==
    /\ pc = "start"
    /\ LET parsed == [input |-> Absolute(argv.input),
                      description |-> argv.description,
                      repo |-> argv.repo,
                      patches |-> [i \in 1..Len(argv.patches) |->
                                      Split(argv.patches[i], "=")],
                      install |-> argv.install,
                      cleanup |-> argv.cleanup]
           file == Absolute(argv.description)
       IN IF ~Readable(fs, file)
          THEN Abort("OSError", parsed, fs)
          ELSE /\ args' = [parsed EXCEPT !.description = fs[file].table]
               /\ pc' = "appid"
               /\ UNCHANGED <<fs, exitStatus, error>>
    /\ UNCHANGED <<argv, appid, desktop_file, appdata_file, struct, build_command,
                   builderRuns, builderStatus, synthIn, synthOut>>

\* appid = f"{reverse_url}.{sanitize_name(name)}"
SynthesizeAppId ==
    /\ pc = "appid"
    /\ LET d == args.description IN
       IF ~Has(d, "common") \/ ~Has(d.common, "reverse_url") \/ ~Has(d.common, "name")
       THEN Abort("KeyError", args, fs) /\ UNCHANGED appid
       ELSE /\ appid' = AppId(d.common.reverse_url, d.common.name)
            /\ pc' = "tmpdir"
            /\ UNCHANGED <<args, fs, exitStatus, error>>
    /\ UNCHANGED <<argv, desktop_file, appdata_file, struct, build_command,
                   builderRuns, builderStatus, synthIn, synthOut>>

\* with tmpdir(name, cleanup) as d: the generator up to its yield
EnterTmpdir ==
    /\ pc = "tmpdir"
    /\ fs' = Mkdir(fs, Workdir(args))
    /\ pc' = "create_desktop"
    /\ UNCHANGED <<argv, args, appid, desktop_file, appdata_file, struct, build_command,
                   builderRuns, builderStatus, exitStatus, error, synthIn, synthOut>>

CreateDesktop ==
    /\ pc = "create_desktop"
    /\ LET r == create_desktop(fs, args.description, Workdir(args), appid) IN
       IF r.error # ""
       THEN Abort(r.error, args, r.fs) /\ UNCHANGED desktop_file
       ELSE /\ fs' = r.fs
            /\ desktop_file' = r.path
            /\ pc' = "create_appdata"
            /\ UNCHANGED <<args, exitStatus, error>>
    /\ UNCHANGED <<argv, appid, appdata_file, struct, build_command,
                   builderRuns, builderStatus, synthIn, synthOut>>

CreateAppdata ==
    /\ pc = "create_appdata"
    /\ LET r == create_appdata(fs, args.description, Workdir(args), appid) IN
       IF r.error # ""
       THEN Abort(r.error, args, r.fs) /\ UNCHANGED appdata_file
       ELSE /\ fs' = r.fs
            /\ appdata_file' = r.path
            /\ pc' = "dump_json"
            /\ UNCHANGED <<args, exitStatus, error>>
    /\ UNCHANGED <<argv, appid, desktop_file, struct, build_command,
                   builderRuns, builderStatus, synthIn, synthOut>>

DumpJson ==
    /\ pc = "dump_json"
    /\ LET r == dump_json(fs, args, Workdir(args), appid, desktop_file, appdata_file) IN
       IF r.error # ""
       THEN Abort(r.error, args, r.fs) /\ UNCHANGED struct
       ELSE /\ fs' = r.fs
            /\ struct' = r.struct
            /\ pc' = "build_flatpak"
            /\ UNCHANGED <<args, exitStatus, error>>
    /\ UNCHANGED <<argv, appid, desktop_file, appdata_file, build_command,
                   builderRuns, builderStatus, synthIn, synthOut>>

\* subprocess.run(build_command): waits for the builder and drops its status
BuildFlatpak ==
    /\ pc = "build_flatpak"
    /\ build_command' = BuildCommand(args, Workdir(args), appid)
    /\ builderRuns' = builderRuns + 1
    /\ \E rc \in BuilderExitCodes : builderStatus' = rc
    /\ pc' = "exit_tmpdir"
    /\ UNCHANGED <<argv, args, fs, appid, desktop_file, appdata_file, struct,
                   exitStatus, error, synthIn, synthOut>>

\* the tmpdir generator after its yield, then the return of main
ExitTmpdir ==
    /\ pc = "exit_tmpdir"
    /\ fs' = IF args.cleanup THEN Rmtree(fs, Workdir(args)) ELSE fs
    /\ exitStatus' = 0
    /\ pc' = "done"
    /\ UNCHANGED <<argv, args, appid, desktop_file, appdata_file, struct, build_command,
                   builderRuns, builderStatus, error, synthIn, synthOut>>

Next ==
    \/ ParseAndLoad
    \/ SynthesizeAppId
    \/ EnterTmpdir
    \/ CreateDesktop
    \/ CreateAppdata
    \/ DumpJson
    \/ BuildFlatpak
    \/ ExitTmpdir

(***************************************************************************)
(* The inputs of a run                                                     *)
(***************************************************************************)
DescriptionFile == <<"game.toml">>

Archive == <<"game.tar">>

Toml(table) == [kind |-> "toml", table |-> table]

Table(reverse_url, name, categories, appdata) ==
    [common |-> [reverse_url |-> reverse_url, name |-> name, categories |-> categories],
     appdata |-> appdata]

\* The description of the spec's scenarios.
BaseTable ==
    Table(<<"io", ".", "example">>, <<"My", " ", "Game">>, << <<"Adventure">> >>,
          [summary |-> <<"A game">>, description |-> <<"A longer text">>])

\* workarounds absent, empty, icon = true, icon = false
WorkaroundVariants(t) ==
    {t, With(t, "workarounds", EmptyDict), With(t, "workarounds", [icon |-> TRUE]),
     With(t, "workarounds", [icon |-> FALSE])}

\* t with one required section or field left out
MissingFieldVariants(t) ==
    {Without(t, "common"), Without(t, "appdata")}
    \cup {[t EXCEPT !.common = Without(@, k)] : k \in {"reverse_url", "name", "categories"}}
    \cup {[t EXCEPT !.appdata = Without(@, "summary")]}

HasIdentity(t) ==
    Has(t, "common") /\ Has(t.common, "reverse_url") /\ Has(t.common, "name")

\* The staging files a run for table t uses.
StagingOf(t) ==
    LET wd == PathJoin(gettempdir, t.common.name)
        id == AppId(t.common.reverse_url, t.common.name)
    IN [dir |-> wd, desktop |-> DesktopPath(wd, id), appdata |-> AppdataPath(wd, id),
        manifest |-> ManifestPath(wd, id)]

\* --patches values: two well-formed ones, one without "=", one with two "=",
\* and one naming the path the manifest of this run is written to.
PatchArgs(t) ==
    { <<"fix.rpy", "=", "game/fix.rpy">>,
      <<"extra.rpy", "=", "game/extra.rpy">>,
      <<"fix.rpy">>,
      <<"a", "=", "b", "=", "c">> }
    \cup (IF HasIdentity(t) THEN {StagingOf(t).manifest \o <<"=", "game/old.json">>}
          ELSE {})

\* The files before the run: the working directory with the patch files, the
\* archive and the description when they exist, and what an earlier run of
\* the same description with --no-cleanup left in the staging directory.
InitialFs(t, descPresent, archivePresent, leftover) ==
    LET user == {Cwd, PathJoin(Cwd, <<"fix.rpy">>), PathJoin(Cwd, <<"extra.rpy">>)}
                \cup (IF descPresent THEN {PathJoin(Cwd, DescriptionFile)} ELSE {})
                \cup (IF archivePresent THEN {PathJoin(Cwd, Archive)} ELSE {})
        st == StagingOf(t)
        old == IF leftover /\ HasIdentity(t)
               THEN {st.dir, st.desktop, st.appdata, st.manifest} ELSE {}
    IN [p \in user \cup old |->
          IF p = Cwd \/ (p \in old /\ p = st.dir) THEN Dir
          ELSE IF p = PathJoin(Cwd, DescriptionFile) THEN Toml(t)
          ELSE IF p \in old THEN Bytes(<<"earlier run">>)
          ELSE Bytes(PathName(p))]

\* The states main() can start in: a description file holding one of the
\* tables (or missing), an archive (or none), up to patchCount --patches
\* values, the three switches, and the staging directory fresh or left over.
InitRun(tables, patchCount, present, leftovers, switches) ==
    /\ \E t \in tables, descPresent \in present, archivePresent \in present,
          leftover \in leftovers :
          /\ fs = InitialFs(t, descPresent, archivePresent, leftover)
          /\ \E patches \in SeqsUpTo(PatchArgs(t), patchCount),
                repo \in {IF b THEN <<"repo">> ELSE None : b \in switches},
                install \in switches, cleanup \in switches :
                argv = [input |-> Archive, description |-> DescriptionFile, repo |-> repo,
                        patches |-> patches, install |-> install, cleanup |-> cleanup]
    /\ args = None
    /\ pc = "start"
    /\ appid = None
    /\ desktop_file = None
    /\ appdata_file = None
    /\ struct = None
    /\ build_command = None
    /\ builderRuns = 0
    /\ builderStatus = -1
    /\ exitStatus = -1
    /\ error = ""
    /\ synthIn = None
    /\ synthOut = None

MainTables == WorkaroundVariants(BaseTable) \cup MissingFieldVariants(BaseTable)

Init == InitRun(MainTables, MaxPatches, BOOLEAN, BOOLEAN, BOOLEAN)

Spec == Init /\ [][Next]_vars

(***************************************************************************)
(* Runs over the descriptions of the catalog: category lists, content      *)
(* ratings, release histories, license                                     *)
(***************************************************************************)
CategoryNames == { <<"Adventure">>, <<"Role", "Playing">> }

RatingDims == { <<"violence-cartoon">>, <<"language-profanity">> }

Severities == { <<"none">>, <<"mild">>, <<"moderate">>, <<"intense">> }

Versions == { <<"1.0">>, <<"1.1">> }

Dates == { <<"2023-01-01">> }

\* A TOML table as its items in file order: the keys are distinct.
Tables(keys, values) ==
    {s \in SeqsUpTo(keys \X values, Cardinality(keys)) :
        \A i, j \in 1..Len(s) : i # j => s[i][1] # s[j][1]}

Optional(a, k, vs) == {a} \cup {With(a, k, v) : v \in vs}

AppdataTables ==
    UNION {UNION {Optional(b, "releases", Tables(Versions, Dates)) :
                    b \in Optional(a, "content_rating", Tables(RatingDims, Severities))} :
             a \in Optional(BaseTable.appdata, "license", {<<"MIT">>})}

CatalogTables ==
    {Table(BaseTable.common.reverse_url, BaseTable.common.name, cs, a) :
        cs \in SeqsUpTo(CategoryNames, MaxCats), a \in AppdataTables}

InitCatalog == InitRun(CatalogTables, 0, {TRUE}, {FALSE}, {FALSE})

SpecCatalog == InitCatalog /\ [][Next]_vars

(***************************************************************************)
(* The identity synthesis on two descriptions                              *)
(***************************************************************************)
NameChars == {"x", " ", "_", ":", "."}

ReverseUrls == { <<"io">>, <<"io", ".", "x">> }

Identities ==
    {[reverse_url |-> u, name |-> n] :
        u \in ReverseUrls, n \in NonEmpty(SeqsUpTo(NameChars, MaxNameLen))}

InitIds ==
    /\ synthIn \in Identities \X Identities
    /\ synthOut = None
    /\ pc = "synthesize"
    /\ argv = None /\ args = None /\ fs = None /\ appid = None
    /\ desktop_file = None /\ appdata_file = None /\ struct = None
    /\ build_command = None /\ builderRuns = 0 /\ builderStatus = -1
    /\ exitStatus = -1 /\ error = ""

\* appid = f"{reverse_url}.{sanitize_name(name)}", for each of the two
SynthesizeIds ==
    /\ pc = "synthesize"
    /\ synthOut' = [i \in 1..2 |-> AppId(synthIn[i].reverse_url, synthIn[i].name)]
    /\ pc' = "synthesized"
    /\ UNCHANGED <<argv, args, fs, appid, desktop_file, appdata_file, struct,
                   build_command, builderRuns, builderStatus, exitStatus, error, synthIn>>

NextIds == SynthesizeIds

SpecIds == InitIds /\ [][NextIds]_vars

(***************************************************************************)
(* Properties of a run                                                     *)
(***************************************************************************)
\* dump_json has returned: the manifest is written
ManifestWritten == pc \in {"build_flatpak", "exit_tmpdir", "done"}

ModuleNames(s) == [i \in 1..Len(s.modules) |-> s.modules[i].name]

Count(list, x) == Cardinality({i \in 1..Len(list) : list[i] = x})

\* C1: in every manifest dump_json writes, the module carrying the archive
\* is first and the modules after it are icon (when present), game_sh,
\* desktop_file, appdata_file, in this order and no other.
ModuleOrder ==
    ManifestWritten =>
        /\ struct.modules[1].sources[1].type = "archive"
        /\ struct.modules[1].name = sanitize_name(args.description.common.name)
        /\ SubSeq(ModuleNames(struct), 2, Len(struct.modules)) \in
              { << <<"icon">>, <<"game_sh">>, <<"desktop_file">>, <<"appdata_file">> >>,
                << <<"game_sh">>, <<"desktop_file">>, <<"appdata_file">> >> }

ModuleOrderWitness ==
    /\ pc = "done"
    /\ Len(struct.modules) = 5
    /\ struct.modules[2].name = <<"icon">>
    /\ Len(args.patches) = 2

\* The move command of one parsed --patches value.
MoveOf(t) == <<"mv ">> \o PathName(Absolute(t[1])) \o <<" /app/lib/game/">> \o t[2]

\* C2: without patches the main module has its four initial commands, one of
\* them the compile command, and one source; with N >= 1 patches the initial
\* commands are followed by the N moves in the order given and then by one
\* compile command, the last of the list (the only one after the initial
\* commands), and the sources are the archive followed by N file entries.
PatchCommands ==
    ManifestWritten =>
        LET n == Len(args.patches)
            m == struct.modules[1]
            cmds == m.build_commands
        IN /\ Len(cmds) >= 4
           /\ cmds[4] = Compile
           /\ Count(SubSeq(cmds, 1, 4), Compile) = 1
           /\ m.sources[1].type = "archive"
           /\ n = 0 => Len(cmds) = 4 /\ Len(m.sources) = 1
           /\ n >= 1 =>
                 /\ Len(cmds) = 4 + n + 1
                 /\ \A i \in 1..n : cmds[4 + i] = MoveOf(args.patches[i])
                 /\ cmds[Len(cmds)] = Compile
                 /\ Count(SubSeq(cmds, 5, Len(cmds)), Compile) = 1
                 /\ Len(m.sources) = 1 + n
                 /\ \A i \in 1..n :
                       /\ m.sources[1 + i].type = "file"
                       /\ m.sources[1 + i].path = Absolute(args.patches[i][1])
                       /\ "sha256" \in DOMAIN m.sources[1 + i]

PatchCommandsWitness ==
    /\ ManifestWritten
    /\ Len(args.patches) = 2
    /\ args.patches[1] # args.patches[2]
    /\ Len(struct.modules[1].build_commands) = 7

RequiredFields(d) ==
    /\ Has(d, "common") /\ Has(d, "appdata")
    /\ {"reverse_url", "name", "categories"} \subseteq DOMAIN d.common
    /\ Has(d.appdata, "summary")

\* C3: the builder is started at most once, never in a run that raised, and
\* only with the descriptor, the catalog file and the manifest written; a
\* run that starts it had every required field, only patch values of two
\* parts, and a readable archive and readable patch files.
BuilderOnlyAfterAssembly ==
    /\ builderRuns \in {0, 1}
    /\ (pc = "aborted" \/ error # "") => (builderRuns = 0 /\ pc = "aborted")
    /\ pc \in {"start", "appid", "tmpdir", "create_desktop", "create_appdata",
               "dump_json", "build_flatpak"} => builderRuns = 0
    /\ builderRuns = 1 =>
          /\ pc \in {"exit_tmpdir", "done"}
          /\ desktop_file # None /\ appdata_file # None
          /\ "modules" \in DOMAIN struct
          /\ RequiredFields(args.description)
          /\ \A i \in 1..Len(args.patches) : Len(args.patches[i]) = 2
    /\ pc = "exit_tmpdir" =>
          /\ Readable(fs, args.input)
          /\ Readable(fs, desktop_file) /\ Readable(fs, appdata_file)
          /\ \A i \in 1..Len(args.patches) : Readable(fs, Absolute(args.patches[i][1]))

BuilderOnlyAfterAssemblyWitness ==
    /\ pc = "aborted"
    /\ error = "ValueError"
    /\ Len(args.patches) = 2
    /\ Len(args.patches[1]) = 2
    /\ builderRuns = 0

\* C4: the exit status of a finished run is the exit status of the builder.
ExitMirrorsBuilder == pc = "done" => exitStatus = builderStatus

\* What one of the program's three writers put into a file.
Generated(content) == content.kind \in {"desktop", "metainfo", "manifest"}

\* C5: when the run ends on a missing description field, the staging
\* directory holds no descriptor, catalog document or manifest written by
\* the run.
NoPartialOutput ==
    (pc = "aborted" /\ error = "KeyError" /\ HasIdentity(args.description)) =>
        LET st == StagingOf(args.description) IN
        \A p \in {st.desktop, st.appdata, st.manifest} :
            p \in DOMAIN fs => ~Generated(fs[p])

IconFlag(d) ==
    ~(Has(d, "workarounds") /\ Has(d.workarounds, "icon") /\ d.workarounds.icon = FALSE)

\* s occurs in text as a contiguous run of pieces
Contains(text, s) ==
    \E i \in 0..(Len(text) - Len(s)) : SubSeq(text, i + 1, i + Len(s)) = s

IconLines(lines) == {i \in 1..Len(lines) : lines[i][1] = "Icon="}

\* C7: with both artifacts written, the manifest has the icon module iff the
\* descriptor has an icon key iff the flag (default true) is on; on: five
\* modules, the icon key is the app id, which is the manifest's app-id and
\* names the icon file the icon module installs; off: four modules, no key.
IconFlagDecidesBoth ==
    pc = "build_flatpak" =>
        LET flag == IconFlag(args.description)
            lines == fs[desktop_file].lines
            ms == struct.modules
            iconModules == {i \in 2..Len(ms) : ms[i].name = <<"icon">>}
        IN /\ (iconModules # {}) <=> flag
           /\ (IconLines(lines) # {}) <=> flag
           /\ flag =>
                 /\ Len(ms) = 5
                 /\ iconModules = {2}
                 /\ Cardinality(IconLines(lines)) = 1
                 /\ \A i \in IconLines(lines) : Tail(lines[i]) = struct.app_id
                 /\ struct.app_id = appid
                 /\ Contains(ms[2].build_commands[2],
                             <<"/app/share/icons/hicolor/256x256/apps/">>
                                 \o appid \o <<".png">>)
           /\ ~flag => Len(ms) = 4

IconFlagOffWitness ==
    /\ pc = "build_flatpak"
    /\ ~IconFlag(args.description)
    /\ Len(struct.modules) = 4
    /\ IconLines(fs[desktop_file].lines) = {}

(***************************************************************************)
(* Properties of the catalog document and the descriptor                   *)
(***************************************************************************)
CatalogChildren == fs[appdata_file].root.children

Blocks(tag) == {i \in 1..Len(CatalogChildren) : CatalogChildren[i].tag = tag}

\* C8: in the catalog document create_appdata wrote, there is a
\* content_rating block iff the description has the content_rating key and a
\* releases block iff it has the releases key; a block that is there is the
\* only one of its kind and has one entry per item of the table, in order.
OptionalBlocksFollowKeys ==
    pc = "dump_json" =>
        LET a == args.description.appdata IN
        /\ (Blocks("content_rating") # {}) <=> Has(a, "content_rating")
        /\ (Blocks("releases") # {}) <=> Has(a, "releases")
        /\ Has(a, "content_rating") =>
              /\ Cardinality(Blocks("content_rating")) = 1
              /\ \A b \in Blocks("content_rating") :
                    LET es == CatalogChildren[b].children IN
                    /\ Len(es) = Len(a.content_rating)
                    /\ \A i \in 1..Len(es) :
                          /\ es[i].tag = "content_attribute"
                          /\ es[i].attrib = << <<"id", a.content_rating[i][1]>> >>
                          /\ es[i].text = a.content_rating[i][2]
        /\ Has(a, "releases") =>
              /\ Cardinality(Blocks("releases")) = 1
              /\ \A b \in Blocks("releases") :
                    LET es == CatalogChildren[b].children IN
                    /\ Len(es) = Len(a.releases)
                    /\ \A i \in 1..Len(es) :
                          /\ es[i].tag = "release"
                          /\ es[i].attrib = << <<"version", a.releases[i][1]>>,
                                                <<"date", a.releases[i][2]>> >>

OptionalBlocksWitness ==
    /\ pc = "dump_json"
    /\ Has(args.description.appdata, "content_rating")
    /\ Len(args.description.appdata.content_rating) = 2
    /\ ~Has(args.description.appdata, "releases")
    /\ Blocks("releases") = {}

\* The entries of the descriptor's Categories value: the texts its
\* semicolons end.
DescriptorCategories ==
    LET lines == fs[desktop_file].lines
        i == CHOOSE k \in 1..Len(lines) : lines[k][1] = "Categories="
        parts == Split(Tail(lines[i]), ";")
    IN SubSeq(parts, 1, Len(parts) - 1)

CatalogCategories ==
    LET e == CatalogChildren[CHOOSE k \in Blocks("categories") : TRUE]
    IN [i \in 1..Len(e.children) |-> e.children[i].text]

\* C9: the descriptor's category entries and the catalog's category
\* elements are the same sequence, and it starts with Game.
CategoriesAgree ==
    pc = "dump_json" =>
        /\ DescriptorCategories = CatalogCategories
        /\ CatalogCategories[1] = <<"Game">>

(***************************************************************************)
(* Properties of the identity synthesis                                    *)
(***************************************************************************)
\* C10: two distinct (reverse_url, name) pairs have distinct identifiers.
IdentifierInjective ==
    pc = "synthesized" => (synthIn[1] # synthIn[2] => synthOut[1] # synthOut[2])

\* a name with every space read as an underscore and its colons left out
Canon(name) ==
    LET kept == SelectSeq(name, LAMBDA c : c # ":")
    IN [i \in 1..Len(kept) |-> IF kept[i] = " " THEN "_" ELSE kept[i]]

NoDot(name) == \A i \in 1..Len(name) : name[i] # "."

\* C10 as amended: for names without a dot, two pairs have the same
\* identifier exactly when their reverse_urls are equal and their names are
\* equal once spaces are read as underscores and colons are left out.
IdentifierInjectiveUpToSanitizing ==
    pc = "synthesized" =>
        LET p == synthIn[1]
            q == synthIn[2]
        IN (NoDot(p.name) /\ NoDot(q.name)) =>
              ((synthOut[1] = synthOut[2]) <=>
                  (p.reverse_url = q.reverse_url /\ Canon(p.name) = Canon(q.name)))

IdentifierCollisionWitness ==
    /\ pc = "synthesized"
    /\ synthIn[1] # synthIn[2]
    /\ NoDot(synthIn[1].name) /\ NoDot(synthIn[2].name)
    /\ synthOut[1] = synthOut[2]

====
